---------------------------- MODULE Spec2Model ----------------------------
(***************************************************************************)
(* A model of src/main.py: the command-line script that prints a banner,   *)
(* the environment, a seedable random payload with a checksum, and a       *)
(* Fibonacci sequence with its sum and its primes.                         *)
(*                                                                         *)
(* Three specifications share the module:                                  *)
(*   SpecCalls    fib and is_prime called with any argument;               *)
(*   SpecPayload  two processes calling random_payload again and again;    *)
(*   Spec         one run of main, from argv to the exit status.           *)
(* All three execute the functions statement by statement, in the same     *)
(* call frames.                                                            *)
(* Python integers are unbounded, so no arithmetic here wraps.             *)
(***************************************************************************)
EXTENDS Integers, Sequences, FiniteSets, TLC

\* ------------------------------------------------------------- bounds
MaxFibArg == 8
MaxPrimeArg == 50
MaxSeed == 3
MaxEntropy == 1
MaxCount == 7
MaxClock == 1
MaxCalls == 2

None == "None"

Abs(x) == IF x < 0 THEN -x ELSE x

\* ---------------------------------------------------------------- fib
\* seq = [] ; a, b = 0, 1
FibInit == [seq |-> <<>>, a |-> 0, b |-> 1]

\* range(max(0, n)): the number of iterations of the for loop
RangeLen(n) == IF n > 0 THEN n ELSE 0

FibBodyFromB(st) == [seq |-> Append(st.seq, st.b), a |-> st.b, b |-> st.a + st.b]

\* seq.append(a) ; a, b = b, a + b
FibBody(st) == [seq |-> Append(st.seq, st.a), a |-> st.b, b |-> st.a + st.b]

\* ----------------------------------------------------------- is_prime
LoopCondStrict(d, n) == d * d < n

\* while d * d <= n
LoopCond(d, n) == d * d <= n

NextDivisorStuck(d) == d

\* d += 2
NextDivisor(d) == d + 2

\* ----------------------------------------------------- random.Random
\* The generator behind random.Random is CPython's Mersenne Twister.  It is
\* modelled by a stand-in with the same interface and a 22-bit state: a state
\* is made from a key, every draw advances it, and getrandbits(k) takes the
\* top k bits of the new state.  Its multiplier and increments are chosen so
\* that the keys within the bounds cover a rejected draw of randint and a
\* draw of random() in the top half-millionth of [0, 1), which CPython's
\* generator produces too (seed 5221946 draws 0.9999996139782771).
RngMod == 2 ^ 22

Genrand(s) == (s * 421 + 1) % RngMod

InitGenrand(key) == ((key % 1024) * 69069 + 646321) % RngMod

\* An optional seed: <<>> is None, <<s>> is the integer s.
NoSeed == <<>>

NewRandomShared(seed, entropy, old) ==
    IF old >= 0 THEN old
    ELSE InitGenrand(IF seed = NoSeed THEN entropy ELSE Abs(seed[1]))

\* random.Random(seed): a new generator, seeded with abs(seed), or from the
\* operating system's entropy when seed is None.  `old` is the state the
\* previous call's generator was left in (-1: none); nothing of it is used.
NewRandom(seed, entropy, old) ==
    InitGenrand(IF seed = NoSeed THEN entropy ELSE Abs(seed[1]))

\* getrandbits(k): the top k bits of the next state
GetRandBits(s, k) == [val |-> Genrand(s) \div (2 ^ (22 - k)), rng |-> Genrand(s)]

\* n.bit_length()
RECURSIVE BitLength(_)
BitLength(n) == IF n = 0 THEN 0 ELSE 1 + BitLength(n \div 2)

\* _randbelow(n): k = n.bit_length(); r = getrandbits(k);
\* while r >= n: r = getrandbits(k)
RECURSIVE RandBelow(_, _)
RandBelow(s, n) ==
    IF GetRandBits(s, BitLength(n)).val < n
    THEN GetRandBits(s, BitLength(n))
    ELSE RandBelow(Genrand(s), n)

RandintNoRetry(s, a, b) ==
    LET r == GetRandBits(s, BitLength(b - a + 1)) IN [val |-> a + r.val, rng |-> r.rng]

\* rng.randint(a, b) = a + _randbelow(b - a + 1)
Randint(s, a, b) ==
    LET r == RandBelow(s, b - a + 1) IN [val |-> a + r.val, rng |-> r.rng]

\* rng.random(): the float val / RngMod, in [0, 1)
Random(s) == [val |-> Genrand(s), rng |-> Genrand(s)]

\* rng.choice(seq) = seq[_randbelow(len(seq))]
Choice(s, seq) ==
    LET r == RandBelow(s, Len(seq)) IN [val |-> seq[r.val + 1], rng |-> r.rng]

IntLo == 1
IntHi == 100
RoundDigits == 6
ChecksumLen == 16
Choices == <<"apple", "banana", "cherry", "durian">>

\* A float with at most RoundDigits fractional digits is held as its number
\* of millionths: 111331 is 0.111331 and One is 1.0.
One == 10 ^ RoundDigits

\* round(k / RngMod, 6) in millionths: the nearest multiple of 10^-6, a tie
\* going to the even one.  k * 10^6 / 2^22 = k * 5^6 / 2^16, computed in two
\* parts to keep every product small.
Round6(k) ==
    LET den == RngMod \div (2 ^ RoundDigits)
        p5 == 5 ^ RoundDigits
        hi == k \div den
        lo == k % den
        q == hi * p5 + (lo * p5) \div den
        r == (lo * p5) % den
    IN  IF 2 * r > den \/ (2 * r = den /\ q % 2 = 1) THEN q + 1 ELSE q

\* ------------------------------------------------------ json, sha256
\* A dict is the sequence of its <<key, value>> pairs in insertion order.
Keys(d) == {d[i][1] : i \in 1..Len(d)}

Get(d, k) == d[CHOOSE i \in 1..Len(d) : d[i][1] = k][2]

\* The UTF-8 bytes of the strings the program uses (all of them ASCII).
Utf8(str) ==
    CASE str = "int" -> <<105, 110, 116>>
      [] str = "float" -> <<102, 108, 111, 97, 116>>
      [] str = "choice" -> <<99, 104, 111, 105, 99, 101>>
      [] str = "sha256" -> <<115, 104, 97, 50, 53, 54>>
      [] str = "apple" -> <<97, 112, 112, 108, 101>>
      [] str = "banana" -> <<98, 97, 110, 97, 110, 97>>
      [] str = "cherry" -> <<99, 104, 101, 114, 114, 121>>
      [] str = "durian" -> <<100, 117, 114, 105, 97, 110>>

Digit(d) == 48 + d

RECURSIVE IntDigits(_)
IntDigits(n) ==
    IF n < 10 THEN <<Digit(n)>> ELSE Append(IntDigits(n \div 10), Digit(n % 10))

\* ds without its trailing zeros, the first digit always kept
StripZeros(ds) ==
    SubSeq(ds, 1, CHOOSE n \in 1..Len(ds) :
                      /\ n = 1 \/ ds[n] # Digit(0)
                      /\ \A j \in (n + 1)..Len(ds) : ds[j] = Digit(0))

FracDigits(m) == [i \in 1..RoundDigits |-> Digit((m \div (10 ^ (RoundDigits - i))) % 10)]

\* float.__repr__ of m millionths: "0.111331", "0.5", "1.0", "0.0", and the
\* exponent form below 0.0001: "2.5e-05", "3e-05", "7e-06".
FloatRepr(m) ==
    IF m = 0 \/ m >= 100
    THEN IntDigits(m \div One) \o <<46>> \o StripZeros(FracDigits(m % One))
    ELSE IF m >= 10
    THEN (IF m % 10 = 0 THEN <<Digit(m \div 10)>>
          ELSE <<Digit(m \div 10), 46, Digit(m % 10)>>) \o <<101, 45, 48, 53>>
    ELSE <<Digit(m), 101, 45, 48, 54>>

Quoted(bytes) == <<34>> \o bytes \o <<34>>

\* A lower-case hex digit as a byte.
HexChar(h) == IF h < 10 THEN 48 + h ELSE 87 + h

\* json's encoding of the value stored under key k: an int, a float, a str.
FormatValue(k, v) ==
    CASE k = "int" -> IntDigits(v)
      [] k = "float" -> FloatRepr(v)
      [] k = "choice" -> Quoted(Utf8(v))
      [] k = "sha256" -> Quoted([i \in 1..Len(v) |-> HexChar(v[i])])

\* a < b for byte strings, as Python compares str keys
LexLess(a, b) ==
    \E i \in 1..(Len(a) + 1) :
        /\ \A j \in 1..(i - 1) : j <= Len(b) /\ a[j] = b[j]
        /\ i <= Len(b)
        /\ (i > Len(a) \/ a[i] < b[i])

\* sorted(S): the i-th key is the one with i - 1 keys below it
SortedKeys(S) ==
    [i \in 1..Cardinality(S) |->
        CHOOSE k \in S : Cardinality({o \in S : LexLess(Utf8(o), Utf8(k))}) = i - 1]

InsertionKeys(d) == [i \in 1..Len(d) |-> d[i][1]]

\* "key": value
Item(d, k) == Quoted(Utf8(k)) \o <<58, 32>> \o FormatValue(k, Get(d, k))

\* the first i items of d in the key order ks, joined by ", "
RECURSIVE Items(_, _, _)
Items(d, ks, i) ==
    IF i = 0 THEN <<>>
    ELSE Items(d, ks, i - 1) \o (IF i > 1 THEN <<44, 32>> ELSE <<>>) \o Item(d, ks[i])

DumpsUnsorted(d) == <<123>> \o Items(d, InsertionKeys(d), Len(d)) \o <<125>>

\* json.dumps(d, sort_keys=True).encode("utf-8")
Dumps(d) == <<123>> \o Items(d, SortedKeys(Keys(d)), Len(d)) \o <<125>>

\* SHA-256 is modelled by a stand-in of the same shape: a fold over the
\* first k bytes, then expanded to 64 hex digits (each 0..15).
RECURSIVE HashFold(_, _)
HashFold(bytes, k) ==
    IF k = 0 THEN 7 ELSE (HashFold(bytes, k - 1) * 31 + bytes[k]) % 65521

HexDigest(h) ==
    [i \in 1..64 |->
        (((h * (2 * ((i - 1) \div 4) + 1) + 7919 * ((i - 1) \div 4)) % 65536)
            \div (16 ^ (3 - ((i - 1) % 4)))) % 16]

\* hashlib.sha256(raw).hexdigest().  (The one-element sets make TLC compute
\* raw and its hash once, also where it evaluates ENABLED.)
Sha256Hex(raw) ==
    CHOOSE hex \in {HexDigest(h) : h \in {HashFold(r, Len(r)) : r \in {raw}}} : TRUE

\* the three draws, in the order of the dict literal: lines 55-59
DrawInt(rng) == Randint(rng, IntLo, IntHi)

DrawFloat(rng) == LET f == Random(rng) IN [val |-> Round6(f.val), rng |-> f.rng]

DrawChoice(rng) == Choice(rng, Choices)

\* data["sha256"] = hashlib.sha256(raw).hexdigest()[:16]: lines 60-61
WithChecksum(data) ==
    Append(data, <<"sha256", SubSeq(Sha256Hex(Dumps(data)), 1, ChecksumLen)>>)

\* ----------------------------------------------------------- main
RECURSIVE SumFromOne(_)
SumFromOne(seq) == IF seq = <<>> THEN 1 ELSE Head(seq) + SumFromOne(Tail(seq))

\* sum(seq): the elements added from the left, starting at 0
RECURSIVE Sum(_)
Sum(seq) == IF seq = <<>> THEN 0 ELSE Head(seq) + Sum(Tail(seq))

KeepInFront(kept, n, isPrime) == IF isPrime THEN <<n>> \o kept ELSE kept

\* [n for n in seq if is_prime(n)]: n joins the end of the list when
\* is_prime(n) returned True
Keep(kept, n, isPrime) == IF isPrime THEN Append(kept, n) ELSE kept

DefaultName == "World"
DefaultCount == 10

\* A command-line value is a token: the text of an integer, or other text.
IntToken(n) == [num |-> TRUE, val |-> n]
JunkToken == [num |-> FALSE, val |-> 0]

\* argparse accepts argv when every type=int option that is given converts
WellFormed(av) ==
    /\ av.seed # <<>> => av.seed[1].num
    /\ av.count # <<>> => av.count[1].num

\* parser.parse_args(argv): the defaults, and int() of the given values
ParseArgs(av) ==
    [name |-> IF av.name = <<>> THEN DefaultName ELSE av.name[1],
     seed |-> IF av.seed = <<>> THEN NoSeed ELSE <<av.seed[1].val>>,
     count |-> IF av.count = <<>> THEN DefaultCount ELSE av.count[1].val]

\* argparse's exit status after a usage error
ParserExit == 2

MainReturnFailure == 2 - 1

\* return 0
MainReturn == 0

StepOrderFibFirst ==
    <<"banner", "env_info", "greet", "fib", "random_payload", "sum", "primes", "print",
      "return">>

\* the statements of main after parse_args, in program order
StepOrder ==
    <<"banner", "env_info", "greet", "random_payload", "fib", "sum", "primes", "print",
      "return">>

\* the statement that follows step in main ("done" after the last)
After(step) ==
    LET i == CHOOSE j \in 1..Len(StepOrder) : StepOrder[j] = step
    IN  IF i = Len(StepOrder) THEN "done" ELSE StepOrder[i + 1]

\* ---------------------------------------------------------- variables
VARIABLES
    \* the frame of the running call of fib or is_prime
    cpc,        \* "idle", "fib_loop", "p_test", "p_loop", "ret"
    cfn,        \* the function called: "fib", "is_prime" or None
    cn,         \* its argument n
    cst,        \* fib's locals seq, a, b
    ci,         \* iterations of fib's for loop done so far
    cd,         \* is_prime's local d
    fibRet,     \* the list fib returned (empty while there is none)
    primeRet    \* the truth value is_prime returned (FALSE while there is none)

callVars == <<cpc, cfn, cn, cst, ci, cd, fibRet, primeRet>>

VARIABLES
    \* per process, the frame of its call of random_payload
    ppc,        \* "idle", "seeded", "int", "float", "choice", "ret"
    pseed,      \* the seed argument (NoSeed: None)
    prng,       \* the state of the generator rng (-1: none yet)
    pdata,      \* the dict data, as built so far
    pcalls      \* calls of random_payload begun

payVars == <<ppc, pseed, prng, pdata, pcalls>>

VARIABLES
    \* one run of main
    mpc,        \* "parse", the step of StepOrder to run next, "done", "exit"
    argv,       \* the command line: name, seed, count, each <<>> or <<token>>
    args,       \* the parsed arguments
    now,        \* the wall clock, in seconds
    banner,     \* the timestamp the banner printed (-1: none)
    info,       \* env_info()'s result (its time; -1: none)
    greeted,    \* the name the greeting printed ("": none)
    seedArg,    \* the argument random_payload was called with
    payload,    \* what random_payload returned
    countArg,   \* the argument fib was called with
    seq,        \* what fib returned
    ssum,       \* sum(seq)
    pidx,       \* elements of seq the list comprehension has dealt with
    primes,     \* the list the comprehension builds
    printed,    \* the count, sequence, sum and primes of the last two prints
    trace,      \* the steps of StepOrder completed, in the order they ran
    rc          \* the exit status (-1: still running)

mainVars == <<mpc, argv, args, now, banner, info, greeted, seedArg, payload, countArg,
              seq, ssum, pidx, primes, printed, trace, rc>>

vars == <<callVars, payVars, mainVars>>

\* The processes of SpecPayload; main runs as process 1.
Procs == {1, 2}

\* No call of fib or is_prime is in progress.
CallsIdle ==
    /\ cpc = "idle"
    /\ cfn = None
    /\ cn = 0
    /\ cst = FibInit
    /\ ci = 0
    /\ cd = 0
    /\ fibRet = <<>>
    /\ primeRet = FALSE

\* No process has called random_payload yet.
PayloadIdle ==
    /\ ppc = [r \in Procs |-> "idle"]
    /\ pseed = [r \in Procs |-> NoSeed]
    /\ prng = [r \in Procs |-> -1]
    /\ pdata = [r \in Procs |-> <<>>]
    /\ pcalls = [r \in Procs |-> 0]

NoArgs == [name |-> "", seed |-> NoSeed, count |-> 0]

NothingPrinted == [count |-> 0, seq |-> <<>>, ssum |-> 0, primes |-> <<>>]

\* main has been entered with the command line av and has done nothing yet.
MainEntered(av) ==
    /\ mpc = "parse"
    /\ argv = av
    /\ args = NoArgs
    /\ now = 0
    /\ banner = -1
    /\ info = -1
    /\ greeted = ""
    /\ seedArg = NoSeed
    /\ payload = <<>>
    /\ countArg = 0
    /\ seq = <<>>
    /\ ssum = 0
    /\ pidx = 0
    /\ primes = <<>>
    /\ printed = NothingPrinted
    /\ trace = <<>>
    /\ rc = -1

NoCommandLine == [name |-> <<>>, seed |-> <<>>, count |-> <<>>]

\* ------------------------------------------------- fib, statement by statement
\* fib(n) is entered: lines 27-28
FibEnter(n) ==
    /\ cpc = "idle"
    /\ cn' = n
    /\ cfn' = "fib"
    /\ cst' = FibInit
    /\ ci' = 0
    /\ cpc' = "fib_loop"
    /\ UNCHANGED <<cd, fibRet, primeRet>>

\* one iteration of the for loop: lines 29-31
FibIter ==
    /\ cpc = "fib_loop"
    /\ ci < RangeLen(cn)
    /\ cst' = FibBody(cst)
    /\ ci' = ci + 1
    /\ UNCHANGED <<cpc, cfn, cn, cd, fibRet, primeRet, payVars, mainVars>>

\* the range is exhausted: return seq, line 32
FibReturn ==
    /\ cpc = "fib_loop"
    /\ ~(ci < RangeLen(cn))
    /\ fibRet' = cst.seq
    /\ cpc' = "ret"
    /\ UNCHANGED <<cfn, cn, cst, ci, cd, primeRet, payVars, mainVars>>

\* -------------------------------------------- is_prime, statement by statement
\* is_prime(n) is entered
PrimeEnter(n) ==
    /\ cpc = "idle"
    /\ cn' = n
    /\ cfn' = "is_prime"
    /\ cpc' = "p_test"
    /\ UNCHANGED <<cst, ci, cd, fibRet, primeRet>>

\* if n < 2: return False, lines 37-38
PrimeSmall ==
    /\ cpc = "p_test"
    /\ cn < 2
    /\ primeRet' = FALSE
    /\ cpc' = "ret"
    /\ UNCHANGED <<cfn, cn, cst, ci, cd, fibRet, payVars, mainVars>>

\* if n % 2 == 0: return n == 2, lines 39-40
PrimeEven ==
    /\ cpc = "p_test"
    /\ ~(cn < 2)
    /\ cn % 2 = 0
    /\ primeRet' = (cn = 2)
    /\ cpc' = "ret"
    /\ UNCHANGED <<cfn, cn, cst, ci, cd, fibRet, payVars, mainVars>>

\* d = 3, line 41
PrimeOdd ==
    /\ cpc = "p_test"
    /\ ~(cn < 2)
    /\ ~(cn % 2 = 0)
    /\ cd' = 3
    /\ cpc' = "p_loop"
    /\ UNCHANGED <<cfn, cn, cst, ci, fibRet, primeRet, payVars, mainVars>>

\* the loop body finds a divisor: return False, lines 42-44
PrimeDivides ==
    /\ cpc = "p_loop"
    /\ LoopCond(cd, cn)
    /\ cn % cd = 0
    /\ primeRet' = FALSE
    /\ cpc' = "ret"
    /\ UNCHANGED <<cfn, cn, cst, ci, cd, fibRet, payVars, mainVars>>

\* the loop body finds none: d += 2, lines 42-45
PrimeNext ==
    /\ cpc = "p_loop"
    /\ LoopCond(cd, cn)
    /\ ~(cn % cd = 0)
    /\ cd' = NextDivisor(cd)
    /\ UNCHANGED <<cpc, cfn, cn, cst, ci, fibRet, primeRet, payVars, mainVars>>

\* the loop condition fails: return True, line 46
PrimeExit ==
    /\ cpc = "p_loop"
    /\ ~LoopCond(cd, cn)
    /\ primeRet' = TRUE
    /\ cpc' = "ret"
    /\ UNCHANGED <<cfn, cn, cst, ci, cd, fibRet, payVars, mainVars>>

\* the caller has the result; the frame is gone
FrameDone ==
    /\ cpc = "ret"
    /\ cpc' = "idle"
    /\ cfn' = None
    /\ cn' = 0
    /\ cst' = FibInit
    /\ ci' = 0
    /\ cd' = 0
    /\ fibRet' = <<>>
    /\ primeRet' = FALSE

\* ---------------------------------------- random_payload, statement by statement
\* What the operating system's entropy source may hand an unseeded generator.
Entropy == 0..MaxEntropy

\* process r enters random_payload(seed): rng = random.Random(seed), line 54
PEnter(r, seed) ==
    /\ ppc[r] \in {"idle", "ret"}
    /\ pcalls[r] < MaxCalls
    /\ pseed' = [pseed EXCEPT ![r] = seed]
    /\ \E e \in Entropy : prng' = [prng EXCEPT ![r] = NewRandom(seed, e, prng[r])]
    /\ pdata' = [pdata EXCEPT ![r] = <<>>]
    /\ pcalls' = [pcalls EXCEPT ![r] = pcalls[r] + 1]
    /\ ppc' = [ppc EXCEPT ![r] = "seeded"]

\* "int": rng.randint(1, 100), line 56
PInt(r) ==
    /\ ppc[r] = "seeded"
    /\ pdata' = [pdata EXCEPT ![r] = Append(pdata[r], <<"int", DrawInt(prng[r]).val>>)]
    /\ prng' = [prng EXCEPT ![r] = DrawInt(prng[r]).rng]
    /\ ppc' = [ppc EXCEPT ![r] = "int"]
    /\ UNCHANGED <<pseed, pcalls, callVars, mainVars>>

\* "float": round(rng.random(), 6), line 57
PFloat(r) ==
    /\ ppc[r] = "int"
    /\ pdata' = [pdata EXCEPT ![r] = Append(pdata[r], <<"float", DrawFloat(prng[r]).val>>)]
    /\ prng' = [prng EXCEPT ![r] = DrawFloat(prng[r]).rng]
    /\ ppc' = [ppc EXCEPT ![r] = "float"]
    /\ UNCHANGED <<pseed, pcalls, callVars, mainVars>>

\* "choice": rng.choice([...]), line 58
PChoice(r) ==
    /\ ppc[r] = "float"
    /\ pdata' = [pdata EXCEPT ![r] = Append(pdata[r], <<"choice", DrawChoice(prng[r]).val>>)]
    /\ prng' = [prng EXCEPT ![r] = DrawChoice(prng[r]).rng]
    /\ ppc' = [ppc EXCEPT ![r] = "choice"]
    /\ UNCHANGED <<pseed, pcalls, callVars, mainVars>>

\* the checksum is added and data returned: lines 60-62
PChecksum(r) ==
    /\ ppc[r] = "choice"
    /\ pdata' = [pdata EXCEPT ![r] = WithChecksum(pdata[r])]
    /\ ppc' = [ppc EXCEPT ![r] = "ret"]
    /\ UNCHANGED <<pseed, prng, pcalls, callVars, mainVars>>

\* ----------------------------------------------------------- SpecCalls
InitCalls == CallsIdle /\ PayloadIdle /\ MainEntered(NoCommandLine)

CallFib ==
    /\ \E n \in -MaxFibArg..MaxFibArg : FibEnter(n)
    /\ UNCHANGED <<payVars, mainVars>>

CallIsPrime ==
    /\ \E n \in -MaxPrimeArg..MaxPrimeArg : PrimeEnter(n)
    /\ UNCHANGED <<payVars, mainVars>>

CallDone == FrameDone /\ UNCHANGED <<payVars, mainVars>>

NextCalls ==
    \/ CallFib
    \/ FibIter
    \/ FibReturn
    \/ CallIsPrime
    \/ PrimeSmall
    \/ PrimeEven
    \/ PrimeOdd
    \/ PrimeDivides
    \/ PrimeNext
    \/ PrimeExit
    \/ CallDone

\* A sequential program keeps executing its next statement.
SpecCalls == InitCalls /\ [][NextCalls]_vars /\ WF_vars(NextCalls)

\* --------------------------------------------------------- SpecPayload
\* The seeds a caller may pass: an integer of either sign, or None.
SeedArgs == {<<k>> : k \in -MaxSeed..MaxSeed} \cup {NoSeed}

InitPayload == CallsIdle /\ PayloadIdle /\ MainEntered(NoCommandLine)

PCall(r) ==
    /\ \E seed \in SeedArgs : PEnter(r, seed)
    /\ UNCHANGED <<callVars, mainVars>>

NextPayload ==
    \E r \in Procs :
        \/ PCall(r)
        \/ PInt(r)
        \/ PFloat(r)
        \/ PChoice(r)
        \/ PChecksum(r)

SpecPayload == InitPayload /\ [][NextPayload]_vars

\* ---------------------------------------------------------------- Spec
Names == {<<>>, <<"Ada">>}

SeedTokens == {<<>>, <<JunkToken>>} \cup {<<IntToken(k)>> : k \in -MaxSeed..MaxSeed}

CountTokens == {<<>>, <<JunkToken>>} \cup {<<IntToken(k)>> : k \in -MaxCount..MaxCount}

Init ==
    /\ CallsIdle
    /\ PayloadIdle
    /\ \E n \in Names, sd \in SeedTokens, c \in CountTokens :
        MainEntered([name |-> n, seed |-> sd, count |-> c])

\* a second passes (main reads the clock for the banner and in env_info,
\* and never after)
Tick ==
    /\ mpc \in {"parse", "banner", "env_info"}
    /\ now < MaxClock
    /\ now' = now + 1
    /\ UNCHANGED <<mpc, argv, args, banner, info, greeted, seedArg, payload, countArg,
                   seq, ssum, pidx, primes, printed, trace, rc, callVars, payVars>>

\* args = parser.parse_args(argv) succeeds: line 76
Parse ==
    /\ mpc = "parse"
    /\ WellFormed(argv)
    /\ args' = ParseArgs(argv)
    /\ mpc' = StepOrder[1]
    /\ UNCHANGED <<argv, now, banner, info, greeted, seedArg, payload, countArg,
                   seq, ssum, pidx, primes, printed, trace, rc, callVars, payVars>>

\* parse_args prints the usage to stderr and exits: line 76
ParseReject ==
    /\ mpc = "parse"
    /\ ~WellFormed(argv)
    /\ rc' = ParserExit
    /\ mpc' = "exit"
    /\ UNCHANGED <<argv, args, now, banner, info, greeted, seedArg, payload, countArg,
                   seq, ssum, pidx, primes, printed, trace, callVars, payVars>>

\* the banner with datetime.now(): lines 78-80
PrintBanner ==
    /\ mpc = "banner"
    /\ banner' = now
    /\ trace' = Append(trace, "banner")
    /\ mpc' = After("banner")
    /\ UNCHANGED <<argv, args, now, info, greeted, seedArg, payload, countArg,
                   seq, ssum, pidx, primes, printed, rc, callVars, payVars>>

\* info = env_info(): line 82
EnvInfo ==
    /\ mpc = "env_info"
    /\ info' = now
    /\ trace' = Append(trace, "env_info")
    /\ mpc' = After("env_info")
    /\ UNCHANGED <<argv, args, now, banner, greeted, seedArg, payload, countArg,
                   seq, ssum, pidx, primes, printed, rc, callVars, payVars>>

\* the greeting and the environment lines: lines 83-86
Greet ==
    /\ mpc = "greet"
    /\ greeted' = args.name
    /\ trace' = Append(trace, "greet")
    /\ mpc' = After("greet")
    /\ UNCHANGED <<argv, args, now, banner, info, seedArg, payload, countArg,
                   seq, ssum, pidx, primes, printed, rc, callVars, payVars>>

\* random_payload(args.seed) is called: line 88
PayloadCall ==
    /\ mpc = "random_payload"
    /\ ppc[1] = "idle"
    /\ PEnter(1, args.seed)
    /\ seedArg' = args.seed
    /\ UNCHANGED <<mpc, argv, args, now, banner, info, greeted, payload, countArg,
                   seq, ssum, pidx, primes, printed, trace, rc, callVars>>

\* the statements of random_payload
PayloadStep == \E r \in Procs : PInt(r) \/ PFloat(r) \/ PChoice(r) \/ PChecksum(r)

\* payload = the dict returned, and it is printed: lines 88-90
PayloadTake ==
    /\ mpc = "random_payload"
    /\ ppc[1] = "ret"
    /\ payload' = pdata[1]
    /\ trace' = Append(trace, "random_payload")
    /\ mpc' = After("random_payload")
    /\ UNCHANGED <<argv, args, now, banner, info, greeted, seedArg, countArg,
                   seq, ssum, pidx, primes, printed, rc, callVars, payVars>>

\* fib(args.count) is called: line 92
FibCall ==
    /\ mpc = "fib"
    /\ FibEnter(args.count)
    /\ countArg' = args.count
    /\ UNCHANGED <<mpc, argv, args, now, banner, info, greeted, seedArg, payload,
                   seq, ssum, pidx, primes, printed, trace, rc, payVars>>

\* seq = the list returned: line 92
FibTake ==
    /\ mpc = "fib"
    /\ FrameDone
    /\ seq' = fibRet
    /\ trace' = Append(trace, "fib")
    /\ mpc' = After("fib")
    /\ UNCHANGED <<argv, args, now, banner, info, greeted, seedArg, payload, countArg,
                   ssum, pidx, primes, printed, rc, payVars>>

\* ssum = sum(seq): line 93
SumCall ==
    /\ mpc = "sum"
    /\ ssum' = Sum(seq)
    /\ trace' = Append(trace, "sum")
    /\ mpc' = After("sum")
    /\ UNCHANGED <<argv, args, now, banner, info, greeted, seedArg, payload, countArg,
                   seq, pidx, primes, printed, rc, callVars, payVars>>

\* the comprehension calls is_prime(n) for the next n of seq: line 94
PrimesTest ==
    /\ mpc = "primes"
    /\ pidx < Len(seq)
    /\ PrimeEnter(seq[pidx + 1])
    /\ UNCHANGED <<mainVars, payVars>>

\* the comprehension keeps n or drops it, and moves on: line 94
PrimesKeep ==
    /\ mpc = "primes"
    /\ FrameDone
    /\ primes' = Keep(primes, seq[pidx + 1], primeRet)
    /\ pidx' = pidx + 1
    /\ UNCHANGED <<mpc, argv, args, now, banner, info, greeted, seedArg, payload,
                   countArg, seq, ssum, printed, trace, rc, payVars>>

\* seq is exhausted: primes = the list built, line 94
PrimesEnd ==
    /\ mpc = "primes"
    /\ cpc = "idle"
    /\ ~(pidx < Len(seq))
    /\ trace' = Append(trace, "primes")
    /\ mpc' = After("primes")
    /\ UNCHANGED <<argv, args, now, banner, info, greeted, seedArg, payload, countArg,
                   seq, ssum, pidx, primes, printed, rc, callVars, payVars>>

\* the two result lines and the closing line: lines 95-98
PrintResults ==
    /\ mpc = "print"
    /\ printed' = [count |-> args.count, seq |-> seq, ssum |-> ssum, primes |-> primes]
    /\ trace' = Append(trace, "print")
    /\ mpc' = After("print")
    /\ UNCHANGED <<argv, args, now, banner, info, greeted, seedArg, payload, countArg,
                   seq, ssum, pidx, primes, rc, callVars, payVars>>

\* return 0, which SystemExit turns into the exit status: lines 99, 104
Return ==
    /\ mpc = "return"
    /\ rc' = MainReturn
    /\ trace' = Append(trace, "return")
    /\ mpc' = After("return")
    /\ UNCHANGED <<argv, args, now, banner, info, greeted, seedArg, payload, countArg,
                   seq, ssum, pidx, primes, printed, callVars, payVars>>

Next ==
    \/ Tick
    \/ Parse
    \/ ParseReject
    \/ PrintBanner
    \/ EnvInfo
    \/ Greet
    \/ PayloadCall
    \/ PayloadStep
    \/ PayloadTake
    \/ FibCall
    \/ FibIter
    \/ FibReturn
    \/ FibTake
    \/ SumCall
    \/ PrimesTest
    \/ PrimeSmall
    \/ PrimeEven
    \/ PrimeOdd
    \/ PrimeDivides
    \/ PrimeNext
    \/ PrimeExit
    \/ PrimesKeep
    \/ PrimesEnd
    \/ PrintResults
    \/ Return

\* The interpreter keeps executing main's next statement.
Spec == Init /\ [][Next]_vars /\ WF_vars(Next)

\* ------------------------------------------- properties of fib, is_prime
\* The i-th Fibonacci number by its recurrence: F(0)=0, F(1)=1.
RECURSIVE FibNum(_)
FibNum(i) == IF i = 0 THEN 0 ELSE IF i = 1 THEN 1 ELSE FibNum(i - 1) + FibNum(i - 2)

\* n has no divisor d with 1 < d < n
NoProperDivisor(n) == \A k \in 2..(n - 1) : n % k # 0

FibReturned == cpc = "ret" /\ cfn = "fib"

PrimeReturned == cpc = "ret" /\ cfn = "is_prime"

\* C1: for every integer n, fib(n) returns a sequence of length max(0, n)
\* whose element at 0-based index i is the i-th Fibonacci number; it is empty
\* for n <= 0, [0] for n = 1 and [0,1,1,2,3] for n = 5.
C1_FibContract ==
    FibReturned =>
        /\ Len(fibRet) = (IF cn > 0 THEN cn ELSE 0)
        /\ \A i \in 1..Len(fibRet) : fibRet[i] = FibNum(i - 1)
        /\ (cn <= 0 => fibRet = <<>>)
        /\ (cn = 1 => fibRet = <<0>>)
        /\ (cn = 5 => fibRet = <<0, 1, 1, 2, 3>>)

C1_Witness == FibReturned /\ cn = 5 /\ fibRet = <<0, 1, 1, 2, 3>>

\* C2: for every integer n, is_prime(n) returns true exactly when n >= 2 and
\* n has no divisor strictly between 1 and n: false below 2, true for 2,
\* false for even n > 2 and for 9, 25, 49, true for 3, 5, 7, 11, 13.
C2_IsPrimeContract ==
    PrimeReturned =>
        /\ primeRet = (cn >= 2 /\ NoProperDivisor(cn))
        /\ (cn < 2 => primeRet = FALSE)
        /\ (cn = 2 => primeRet = TRUE)
        /\ (cn > 2 /\ cn % 2 = 0 => primeRet = FALSE)
        /\ (cn \in {9, 25, 49} => primeRet = FALSE)
        /\ (cn \in {3, 5, 7, 11, 13} => primeRet = TRUE)

C2_Witness == PrimeReturned /\ cn = 49 /\ cd = 7 /\ primeRet = FALSE

\* C10: every call of fib and of is_prime reaches its return, for every
\* integer argument; fib's loop has then run exactly max(0, n) iterations,
\* and is_prime's d starts at 3 and stays odd.
C10_Terminates ==
    /\ [](FibReturned => ci = (IF cn > 0 THEN cn ELSE 0))
    /\ [](cpc = "p_loop" => cd >= 3 /\ cd % 2 = 1)
    /\ ((cpc # "idle") ~> (cpc = "ret"))

C10_Witness == PrimeReturned /\ cn = 47 /\ cd = 7 /\ primeRet = TRUE

\* ------------------------------------------ properties of random_payload
PReturned(r) == ppc[r] = "ret"

\* The text json.dumps(..., sort_keys=True) gives a dict of exactly the three
\* fields, written out with its keys in lexicographic order.
CanonicalJson(i, f, c) ==
    <<123>> \o Quoted(Utf8("choice")) \o <<58, 32>> \o Quoted(Utf8(c)) \o <<44, 32>>
            \o Quoted(Utf8("float")) \o <<58, 32>> \o FloatRepr(f) \o <<44, 32>>
            \o Quoted(Utf8("int")) \o <<58, 32>> \o IntDigits(i) \o <<125>>

ThreeFields(d) == <<Get(d, "int"), Get(d, "float"), Get(d, "choice")>>

\* C3: with a seed given, random_payload returns the same payload in every
\* call: two processes that both returned from a call with the same seed hold
\* equal payloads, whatever calls either made before, and the payload is the
\* one drawn from a generator newly seeded with that seed, in the order int,
\* float, choice.
C3_SeedDeterminesPayload ==
    /\ \A r1, r2 \in Procs :
        (PReturned(r1) /\ PReturned(r2) /\ pseed[r1] # NoSeed /\ pseed[r1] = pseed[r2])
            => pdata[r1] = pdata[r2]
    /\ \A r \in Procs :
        (PReturned(r) /\ pseed[r] # NoSeed) =>
            LET g == InitGenrand(Abs(pseed[r][1]))
                i == Randint(g, 1, 100)
                f == Random(i.rng)
                c == Choice(f.rng, Choices)
            IN  /\ InsertionKeys(pdata[r]) = <<"int", "float", "choice", "sha256">>
                /\ ThreeFields(pdata[r]) = <<i.val, Round6(f.val), c.val>>

C3_Witness ==
    /\ PReturned(1) /\ PReturned(2)
    /\ pcalls[1] = 2 /\ pcalls[2] = 1
    /\ pseed[1] = <<2>> /\ pseed[2] = <<2>>
    /\ pdata[1] = pdata[2]

\* C4: the stored checksum is the first 16 hex digits of the hash of the
\* key-sorted serialization of exactly int, float and choice, so recomputing
\* it from the returned payload's three fields gives the stored value, and two
\* payloads with equal three fields have equal checksums.
C4_ChecksumOfThreeFields ==
    /\ \A r \in Procs :
        PReturned(r) =>
            LET d == pdata[r]
                raw == CanonicalJson(Get(d, "int"), Get(d, "float"), Get(d, "choice"))
            IN  /\ Get(d, "sha256") = SubSeq(Sha256Hex(raw), 1, 16)
                /\ Len(Get(d, "sha256")) = 16
                /\ \A i \in 1..16 : Get(d, "sha256")[i] \in 0..15
    /\ \A r1, r2 \in Procs :
        (PReturned(r1) /\ PReturned(r2) /\ ThreeFields(pdata[r1]) = ThreeFields(pdata[r2]))
            => Get(pdata[r1], "sha256") = Get(pdata[r2], "sha256")

C4_Witness ==
    /\ PReturned(1) /\ PReturned(2)
    /\ pseed[1] = <<1>> /\ pseed[2] = NoSeed
    /\ ThreeFields(pdata[1]) = ThreeFields(pdata[2])
    /\ Get(pdata[1], "sha256") = Get(pdata[2], "sha256")

IntAndChoiceInRange(d) ==
    /\ Get(d, "int") \in 1..100
    /\ Get(d, "choice") \in {"apple", "banana", "cherry", "durian"}

\* C8, as claimed: every returned payload has int in [1,100], float in [0,1)
\* after rounding, and choice among apple, banana, cherry, durian.
C8_FloatBelowOne ==
    \A r \in Procs :
        PReturned(r) =>
            /\ IntAndChoiceInRange(pdata[r])
            /\ Get(pdata[r], "float") >= 0
            /\ Get(pdata[r], "float") < One

\* C8, amended: every returned payload has int in [1,100], float a multiple
\* of 10^-6 in [0,1] with 1.0 included (a draw of 0.9999995 or more rounds up
\* to it), and choice among apple, banana, cherry, durian.
C8_FloatAtMostOne ==
    \A r \in Procs :
        PReturned(r) =>
            /\ IntAndChoiceInRange(pdata[r])
            /\ Get(pdata[r], "float") \in 0..One

C8_Witness == PReturned(1) /\ pseed[1] = <<3>> /\ Get(pdata[1], "float") = One

\* ----------------------------------------------------- properties of main
Did(step) == \E i \in 1..Len(trace) : trace[i] = step

IsPrimeByDefinition(n) == n >= 2 /\ NoProperDivisor(n)

RECURSIVE SumTo(_, _)
SumTo(s, k) == IF k = 0 THEN 0 ELSE SumTo(s, k - 1) + s[k]

IsPrefix(s, t) == Len(s) <= Len(t) /\ s = SubSeq(t, 1, Len(s))

ProgramOrder ==
    <<"banner", "env_info", "greet", "random_payload", "fib", "sum", "primes", "print",
      "return">>

\* C5: the primes main computes are the elements of fib(count) for which
\* is_prime holds, in the sequence's order and as often as they occur there;
\* 0 and 1 are never among them; for count = 5 they are [2, 3].
C5_PrimesAreTheFilteredSequence ==
    /\ primes = SelectSeq(SubSeq(seq, 1, pidx), IsPrimeByDefinition)
    /\ Did("primes") =>
        /\ pidx = Len(seq)
        /\ primes = SelectSeq(seq, IsPrimeByDefinition)
        /\ \A i \in 1..Len(primes) : primes[i] \notin {0, 1}
        /\ (args.count = 5 => seq = <<0, 1, 1, 2, 3>> /\ primes = <<2, 3>>)
    /\ Did("print") => printed.primes = primes /\ printed.seq = seq

C5_Witness == Did("print") /\ args.count = 7 /\ printed.primes = <<2, 3, 5>>

\* C6: the sum main prints is the total of the printed sequence fib(count):
\* 7 for count = 5; for count <= 0 the sequence is empty, the sum 0 and the
\* primes list empty.
C6_SumIsTheTotal ==
    /\ Did("sum") => ssum = SumTo(seq, Len(seq))
    /\ Did("print") =>
        /\ printed.ssum = SumTo(printed.seq, Len(printed.seq))
        /\ \A i \in 1..Len(printed.seq) : printed.seq[i] = FibNum(i - 1)
        /\ Len(printed.seq) = (IF args.count > 0 THEN args.count ELSE 0)
        /\ (args.count = 5 => printed.ssum = 7)
        /\ (args.count <= 0 =>
                printed.seq = <<>> /\ printed.ssum = 0 /\ printed.primes = <<>>)

C6_Witness == Did("print") /\ args.count = 5 /\ printed.ssum = 7

C9_StepsInProgramOrder ==
    /\ IsPrefix(trace, ProgramOrder)
    /\ (mpc \notin {"parse", "done", "exit"} => mpc = ProgramOrder[Len(trace) + 1])
    /\ (mpc = "done" => trace = ProgramOrder /\ rc = 0)
    /\ (mpc = "exit" => trace = <<>>)
    /\ (Did("env_info") => banner >= 0 /\ info >= banner)
    /\ (Did("greet") => greeted = args.name)
    /\ (Did("random_payload") => seedArg = args.seed /\ Len(payload) = 4)
    /\ (~Did("random_payload") => payload = <<>>)
    /\ (Did("fib") => countArg = args.count)
    /\ (~Did("fib") => seq = <<>>)
    /\ (~Did("print") => printed = NothingPrinted)

C9_Witness ==
    mpc = "done" /\ trace = ProgramOrder /\ args.name = "Ada" /\ args.seed = <<-1>>
        /\ args.count = 3

=============================================================================
